---- MODULE Spec2Model ----
(***************************************************************************)
(* Model of src/main.py: the workflow builder (create_workflow), the       *)
(* runner (run_hedge_fund, parse_hedge_fund_response) and the command-line *)
(* program (__main__): argument parsing, portfolio/ticker resolution, the  *)
(* analyst prompt, date validation and the per-ticker loop.                *)
(*                                                                         *)
(* Python values: None is the record [some |-> FALSE]; any other optional  *)
(* value v is [some |-> TRUE, val |-> v]. Strings whose text matters (the  *)
(* dates, the final message) are sequences of one-character strings.       *)
(***************************************************************************)
EXTENDS Integers, Sequences, FiniteSets, TLC

\* ------------------------------------------------------------------ bounds
\* Longest analyst selection passed to create_workflow in a direct call.
MaxSel == 3
\* Longest ticker list given on the command line.
MaxTickers == 2

\* ------------------------------------------------------------ Python None
None == [some |-> FALSE]
Some(v) == [some |-> TRUE, val |-> v]

\* dict.get(key, default) on an optional entry.
dict_get(entry, default) == IF entry.some THEN entry.val ELSE default

\* ------------------------------------------------------- workflow builder
END == "__end__"
START_NODE == "start_node"
RISK == "risk_management_agent"
PORTFOLIO == "portfolio_management_agent"

\* The four keys offered at the prompt, in the order of the choices.
AnalystKeys == <<"technical_analyst", "fundamentals_analyst",
                 "sentiment_analyst", "valuation_analyst">>

KnownKeys == {AnalystKeys[k] : k \in 1..Len(AnalystKeys)}

\* analyst_nodes: key -> node name (the callable is not modelled).
analyst_nodes ==
    [k \in KnownKeys |->
        CASE k = "technical_analyst" -> "technical_analyst_agent"
          [] k = "fundamentals_analyst" -> "fundamentals_agent"
          [] k = "sentiment_analyst" -> "sentiment_agent"
          [] k = "valuation_analyst" -> "valuation_agent"]

\* StateGraph(AgentState): an empty graph under construction. raised holds
\* the exception that ended the construction, "none" while there is none.
StateGraph == [nodes |-> {}, edges |-> {}, entry_point |-> "", raised |-> "none"]

\* workflow.add_node(name, func). StateGraph.add_node refuses a name that is
\* already a node of the graph (ValueError).
add_node(wf, name) ==
    IF wf.raised # "none" THEN wf
    ELSE IF name \in wf.nodes THEN [wf EXCEPT !.raised = "ValueError"]
    ELSE [wf EXCEPT !.nodes = @ \cup {name}]

\* workflow.add_edge(a, b): the graph's edges are a set of pairs.
add_edge(wf, a, b) ==
    IF wf.raised # "none" THEN wf
    ELSE [wf EXCEPT !.edges = @ \cup {<<a, b>>}]

\* workflow.set_entry_point(name).
set_entry_point(wf, name) ==
    IF wf.raised # "none" THEN wf
    ELSE [wf EXCEPT !.entry_point = name]

\* The default of line 93: only None is replaced by the four analysts.
default_selection(selected_analysts) ==
    IF selected_analysts = None THEN AnalystKeys ELSE selected_analysts.val

\* First loop (lines 105-108), from the i-th key on: look the key up in
\* analyst_nodes (KeyError when it is no key), add its node and the edge
\* from start_node.
RECURSIVE add_analyst_nodes(_, _, _)
add_analyst_nodes(wf, sel, i) ==
    IF i > Len(sel) \/ wf.raised # "none" THEN wf
    ELSE IF sel[i] \notin DOMAIN analyst_nodes
         THEN [wf EXCEPT !.raised = "KeyError"]
    ELSE add_analyst_nodes(
             add_edge(add_node(wf, analyst_nodes[sel[i]]),
                      START_NODE, analyst_nodes[sel[i]]),
             sel, i + 1)

\* A slip of line 117: the edge into risk management leaves start_node.
risk_edge_from_start(wf, node_name) == add_edge(wf, START_NODE, RISK)

\* The edge the second loop adds for one analyst node (line 117).
risk_edge(wf, node_name) == add_edge(wf, node_name, RISK)

\* Second loop (lines 115-117), from the i-th key on.
RECURSIVE connect_analysts(_, _, _)
connect_analysts(wf, sel, i) ==
    IF i > Len(sel) \/ wf.raised # "none" THEN wf
    ELSE IF sel[i] \notin DOMAIN analyst_nodes
         THEN [wf EXCEPT !.raised = "KeyError"]
    ELSE connect_analysts(risk_edge(wf, analyst_nodes[sel[i]]), sel, i + 1)

\* create_workflow(selected_analysts): the workflow object as it stands when
\* the function returns (raised = "none") or when the exception leaves it.
create_workflow(selected_analysts) ==
    LET wf0 == add_node(StateGraph, START_NODE)
        sel == default_selection(selected_analysts)
        wf1 == add_analyst_nodes(wf0, sel, 1)
        wf2 == add_node(add_node(wf1, RISK), PORTFOLIO)
        wf3 == connect_analysts(wf2, sel, 1)
        wf4 == add_edge(add_edge(wf3, RISK, PORTFOLIO), PORTFOLIO, END)
    IN  set_entry_point(wf4, START_NODE)

\* ------------------------------------------------------- json.loads model
\* The content of a message is a sequence of JSON tokens: "{", "}", ":",
\* ",", "s" (a string literal), "n" (a number literal), "null"; any other
\* token is text that is no JSON.
RECURSIVE json_value(_, _), json_members(_, _, _)
\* Parse one JSON value starting at token p: [ok, next, val].
json_value(t, p) ==
    IF p > Len(t) THEN [ok |-> FALSE, next |-> p, val |-> None]
    ELSE CASE t[p] = "s" ->
                [ok |-> TRUE, next |-> p + 1, val |-> Some([type |-> "str", items |-> <<>>])]
           [] t[p] = "n" ->
                [ok |-> TRUE, next |-> p + 1, val |-> Some([type |-> "num", items |-> <<>>])]
           [] t[p] = "null" ->
                [ok |-> TRUE, next |-> p + 1, val |-> None]
           [] t[p] = "{" ->
                IF p + 1 <= Len(t) /\ t[p + 1] = "}"
                THEN [ok |-> TRUE, next |-> p + 2,
                      val |-> Some([type |-> "dict", items |-> <<>>])]
                ELSE json_members(t, p + 1, <<>>)
           [] OTHER -> [ok |-> FALSE, next |-> p, val |-> None]

\* Parse the members of an object from token p on; acc are the values so far.
json_members(t, p, acc) ==
    IF p + 1 > Len(t) \/ t[p] # "s" \/ t[p + 1] # ":"
    THEN [ok |-> FALSE, next |-> p, val |-> None]
    ELSE LET v == json_value(t, p + 2)
         IN  IF ~v.ok \/ v.next > Len(t)
             THEN [ok |-> FALSE, next |-> v.next, val |-> None]
             ELSE IF t[v.next] = "}"
                  THEN [ok |-> TRUE, next |-> v.next + 1,
                        val |-> Some([type |-> "dict", items |-> Append(acc, v.val)])]
             ELSE IF t[v.next] = ","
                  THEN json_members(t, v.next + 1, Append(acc, v.val))
             ELSE [ok |-> FALSE, next |-> v.next, val |-> None]

\* json.loads(response): [raised, val]; it raises unless the whole content is
\* one JSON value.
json_loads(response) ==
    LET v == json_value(response, 1)
    IN  IF v.ok /\ v.next = Len(response) + 1
        THEN [raised |-> FALSE, val |-> v.val]
        ELSE [raised |-> TRUE, val |-> None]

\* A slip of lines 35-39: the failure of json.loads is not caught.
parse_uncaught(response) == json_loads(response)

\* parse_hedge_fund_response (lines 33-39): the bare except turns every
\* failure of json.loads into None.
parse_hedge_fund_response(response) ==
    LET r == json_loads(response)
    IN  IF r.raised THEN [raised |-> FALSE, val |-> None]
        ELSE [raised |-> FALSE, val |-> r.val]

\* ---------------------------------------------------------- date handling
Digits == <<"0", "1", "2", "3", "4", "5", "6", "7", "8", "9">>
IsDigit(c) == \E k \in 1..Len(Digits) : Digits[k] = c
DigitVal(c) == (CHOOSE k \in 1..Len(Digits) : Digits[k] = c) - 1

\* The directive %m of strptime: 1[0-2] | 0[1-9] | [1-9].
MatchMonth(w) ==
    \/ Len(w) = 2 /\ w[1] = "1" /\ w[2] \in {"0", "1", "2"}
    \/ Len(w) = 2 /\ w[1] = "0" /\ IsDigit(w[2]) /\ w[2] # "0"
    \/ Len(w) = 1 /\ IsDigit(w[1]) /\ w[1] # "0"

\* The directive %d of strptime: 3[01] | [12]\d | 0[1-9] | [1-9] | " "[1-9].
MatchDay(w) ==
    \/ Len(w) = 2 /\ w[1] = "3" /\ w[2] \in {"0", "1"}
    \/ Len(w) = 2 /\ w[1] \in {"1", "2"} /\ IsDigit(w[2])
    \/ Len(w) = 2 /\ w[1] \in {"0", " "} /\ IsDigit(w[2]) /\ w[2] # "0"
    \/ Len(w) = 1 /\ IsDigit(w[1]) /\ w[1] # "0"

\* The number a word of digits (after an optional blank) stands for.
RECURSIVE NumberOf(_)
NumberOf(w) ==
    IF w = <<>> THEN 0
    ELSE IF w[Len(w)] = " " THEN 0
    ELSE 10 * NumberOf(SubSeq(w, 1, Len(w) - 1)) + DigitVal(w[Len(w)])

IsLeap(y) == (y % 4 = 0 /\ y % 100 # 0) \/ y % 400 = 0

DaysInMonth(y, m) ==
    IF m = 2 THEN (IF IsLeap(y) THEN 29 ELSE 28)
    ELSE IF m \in {4, 6, 9, 11} THEN 30 ELSE 31

\* The ways to read s as %Y-%m-%d: four digits, "-", a month word of ml
\* characters, "-", a day word of dl characters, and nothing after it.
YmdSplits(s) ==
    {sp \in {1, 2} \X {1, 2} :
        /\ Len(s) = 4 + 1 + sp[1] + 1 + sp[2]
        /\ \A k \in 1..4 : IsDigit(s[k])
        /\ s[5] = "-"
        /\ MatchMonth(SubSeq(s, 6, 5 + sp[1]))
        /\ s[6 + sp[1]] = "-"
        /\ MatchDay(SubSeq(s, 7 + sp[1], 6 + sp[1] + sp[2]))}

\* datetime.strptime(s, "%Y-%m-%d"): None stands for ValueError (no match,
\* text left over, or no such day), otherwise the date [y, m, d].
strptime(s) ==
    IF YmdSplits(s) = {} THEN None
    ELSE LET sp == CHOOSE x \in YmdSplits(s) : TRUE
             y == NumberOf(SubSeq(s, 1, 4))
             m == NumberOf(SubSeq(s, 6, 5 + sp[1]))
             d == NumberOf(SubSeq(s, 7 + sp[1], 6 + sp[1] + sp[2]))
         IN  IF y < 1 \/ d > DaysInMonth(y, m) THEN None
             ELSE Some([y |-> y, m |-> m, d |-> d])

\* n written with at least w digits.
RECURSIVE Pad(_, _)
Pad(n, w) ==
    IF w <= 1 /\ n < 10 THEN <<Digits[n + 1]>>
    ELSE Append(Pad(n \div 10, w - 1), Digits[(n % 10) + 1])

\* date.strftime("%Y-%m-%d").
strftime(date) == Pad(date.y, 4) \o <<"-">> \o Pad(date.m, 2) \o <<"-">> \o Pad(date.d, 2)

\* date - relativedelta(months=3): three months back, the day clipped to
\* the length of the month reached; None stands for the ValueError of a
\* year before 1.
minus_three_months(date) ==
    LET m == IF date.m > 3 THEN date.m - 3 ELSE date.m + 9
        y == IF date.m > 3 THEN date.y ELSE date.y - 1
        d == IF date.d > DaysInMonth(y, m) THEN DaysInMonth(y, m) ELSE date.d
    IN  IF y < 1 THEN None ELSE Some([y |-> y, m |-> m, d |-> d])

\* ------------------------------------------------------------ the program
VARIABLES
    pc,                 \* position of the program
    args,               \* the parsed command line (and the YAML document)
    now,                \* the date datetime.now() gives
    tickers,            \* list of tickers to process
    positions,          \* ticker -> position dict (its optional "stock")
    heap,               \* the dict objects base_portfolio and portfolio
    selected_analysts,  \* None or the list chosen at the prompt
    workflow,           \* the workflow object of the last create_workflow
    app,                \* the global compiled graph (None while undefined)
    agent,              \* the compiled graph run_hedge_fund invokes
    builds,             \* number of create_workflow + compile so far
    invocations,        \* number of agent.invoke calls so far
    start_date, end_date,
    i,                  \* index of the loop's current ticker
    attempted,          \* tickers for which the loop body was entered
    reported,           \* what was printed for each attempted ticker
    data,               \* state["data"] of the running graph
    messages,           \* state["messages"]: the contents, in order
    analyst_signals,    \* state["data"]["analyst_signals"]
    active,             \* nodes of the engine's current step
    step_done,          \* nodes of the current step that have run
    run_count,          \* node -> number of times it ran in this invocation
    result,             \* what run_hedge_fund returned
    error               \* the exception that ended the program

vars == <<pc, args, now, tickers, positions, heap, selected_analysts, workflow,
          app, agent, builds, invocations, start_date, end_date, i, attempted,
          reported, data, messages, analyst_signals, active, step_done,
          run_count, result, error>>

\* ------------------------------------------------------------------ inputs
Tickers == {"AAPL", "MSFT"}

\* Sequences over S of length lo..hi.
SeqsOf(S, lo, hi) == UNION {[1..n -> S] : n \in lo..hi}

NoRepeat(q) == \A a, b \in 1..Len(q) : a # b => q[a] # q[b]

\* --tickers: one or more symbols.
TickerLists == SeqsOf(Tickers, 1, MaxTickers)

\* The YAML document of --config: the optional portfolio.cash and the
\* positions in document order, each with its optional stock.
Configs ==
    [cash : {None} \cup {Some(c) : c \in {50000}},
     positions : {q \in SeqsOf([name : Tickers, stock : {None, Some(10)}], 0, Cardinality(Tickers)) :
                      NoRepeat([k \in 1..Len(q) |-> q[k].name])}]

\* Texts given as --start-date and --end-date.
StartDateInputs ==
    {None,
     Some(<<"2","0","2","4","-","0","3","-","0","1">>),
     Some(<<"2","0","2","4","-","3","-","1">>),
     Some(<<"2","0","2","4","/","0","3","/","0","1">>)}

EndDateInputs ==
    {None,
     Some(<<"2","0","2","4","-","0","5","-","3","1">>),
     Some(<<"2","0","2","4","-","0","2","-","3","0">>)}

Clock == {[y |-> 2024, m |-> 5, d |-> 31]}

\* What the checkbox prompt can answer: None (no answer) or the chosen
\* keys, in the order of the choices; its validator refuses an empty answer.
PromptAnswers ==
    {None} \cup {Some(SelectSeq(AnalystKeys, LAMBDA k : k \in S)) :
                    S \in (SUBSET KnownKeys) \ {{}}}

\* Contents the final message can have.
Contents ==
    {<<"{", "s", ":", "s", ",", "s", ":", "n", "}">>,
     <<"{", "s", ":", "s">>,
     <<"hold">>,
     <<"n">>,
     <<"null">>,
     <<>>}

HumanContent == <<"Make a trading decision based on the provided data.">>
NodeContent == <<"{", "s", ":", "s", "}">>

DefaultCash == 100000

\* ------------------------------------------------------------ small helpers
EmptyDict == [k \in {} |-> ""]
dict_set(d, key, v) == [k \in DOMAIN d \cup {key} |-> IF k = key THEN v ELSE d[k]]

NoDict == [cash |-> None, stock |-> None]
NoData == [ticker |-> "", portfolio |-> "", start_date |-> <<>>, end_date |-> <<>>]
NoResult == [decision |-> None, analyst_signals |-> EmptyDict]
NoGraph == [nodes |-> {}, edges |-> {}, entry_point |-> ""]

\* Python truth of an optional string: None and "" are false.
truthy(s) == s.some /\ s.val # <<>>

\* workflow.compile(): the executable graph of the workflow.
compile(wf) == [nodes |-> wf.nodes, edges |-> wf.edges, entry_point |-> wf.entry_point]

\* --------------------------------------------------------- initial states
\* State shared by both specifications before anything has run.
Blank ==
    /\ tickers = <<>>
    /\ positions = EmptyDict
    /\ heap = [r \in {"base_portfolio", "portfolio"} |-> NoDict]
    /\ workflow = StateGraph
    /\ agent = NoGraph
    /\ builds = 0
    /\ invocations = 0
    /\ start_date = <<>>
    /\ end_date = <<>>
    /\ i = 0
    /\ attempted = <<>>
    /\ reported = <<>>
    /\ data = NoData
    /\ messages = <<>>
    /\ analyst_signals = EmptyDict
    /\ active = {}
    /\ step_done = {}
    /\ run_count = EmptyDict
    /\ result = NoResult
    /\ error = "none"

\* The program started from the command line: any combination of --tickers
\* and --config, any start and end date text.
Init ==
    /\ pc = "parse_args"
    /\ args \in [tickers : {None} \cup {Some(t) : t \in TickerLists},
                 config : {None} \cup {Some(c) : c \in Configs},
                 start_date : StartDateInputs,
                 end_date : EndDateInputs]
    /\ now \in Clock
    /\ selected_analysts = None
    /\ app = None
    /\ Blank

\* ----------------------------------------------------------------- actions
\* parser.parse_args() (lines 130-146): --tickers and --config form a
\* required mutually exclusive group; argparse ends the program otherwise.
ParseArgs ==
    /\ pc = "parse_args"
    /\ IF args.tickers.some = args.config.some
       THEN pc' = "exit" /\ error' = "SystemExit"
       ELSE pc' = "resolve" /\ error' = error
    /\ UNCHANGED <<args, now, tickers, positions, heap, selected_analysts,
                   workflow, app, agent, builds, invocations, start_date,
                   end_date, i, attempted, reported, data, messages,
                   analyst_signals, active, step_done, run_count, result>>

\* Lines 148-162: tickers, positions and base_portfolio from the YAML
\* document or from --tickers.
ResolveConfig ==
    /\ pc = "resolve"
    /\ IF args.config.some
       THEN LET config == args.config.val
                names == [k \in 1..Len(config.positions) |-> config.positions[k].name]
            IN  /\ tickers' = names
                /\ positions' = [t \in {names[k] : k \in 1..Len(names)} |->
                                    (CHOOSE q \in {config.positions[k] : k \in 1..Len(names)} :
                                        q.name = t).stock]
                /\ heap' = [heap EXCEPT !["base_portfolio"] =
                               [cash |-> Some(dict_get(config.cash, DefaultCash)),
                                stock |-> None]]
       ELSE /\ tickers' = args.tickers.val
            /\ positions' = [t \in {args.tickers.val[k] : k \in 1..Len(args.tickers.val)} |->
                                Some(0)]
            /\ heap' = [heap EXCEPT !["base_portfolio"] =
                           [cash |-> Some(DefaultCash), stock |-> None]]
    /\ pc' = "prompt"
    /\ UNCHANGED <<args, now, selected_analysts, workflow, app, agent, builds,
                   invocations, start_date, end_date, i, attempted, reported,
                   data, messages, analyst_signals, active, step_done,
                   run_count, result, error>>

\* Lines 164-188: the checkbox prompt; no answer falls back to None.
Prompt ==
    /\ pc = "prompt"
    /\ \E choices \in PromptAnswers :
          selected_analysts' = IF ~choices.some \/ choices.val = <<>>
                               THEN None ELSE choices
    /\ pc' = "build"
    /\ UNCHANGED <<args, now, tickers, positions, heap, workflow, app, agent,
                   builds, invocations, start_date, end_date, i, attempted,
                   reported, data, messages, analyst_signals, active,
                   step_done, run_count, result, error>>

\* Lines 190-192: workflow = create_workflow(selected_analysts);
\* app = workflow.compile().
BuildApp ==
    /\ pc = "build"
    /\ workflow' = create_workflow(selected_analysts)
    /\ IF workflow'.raised # "none"
       THEN pc' = "exit" /\ error' = workflow'.raised /\ UNCHANGED <<app, builds>>
       ELSE /\ app' = Some(compile(workflow'))
            /\ builds' = builds + 1
            /\ pc' = "dates"
            /\ error' = error
    /\ UNCHANGED <<args, now, tickers, positions, heap, selected_analysts,
                   agent, invocations, start_date, end_date, i, attempted,
                   reported, data, messages, analyst_signals, active,
                   step_done, run_count, result>>

\* Lines 194-214: [raised, start_date, end_date] for the two date arguments.
resolve_dates(a, today) ==
    IF truthy(a.start_date) /\ ~strptime(a.start_date.val).some
    THEN [raised |-> "ValueError", start_date |-> <<>>, end_date |-> <<>>]
    ELSE IF truthy(a.end_date) /\ ~strptime(a.end_date.val).some
    THEN [raised |-> "ValueError", start_date |-> <<>>, end_date |-> <<>>]
    ELSE LET e == IF truthy(a.end_date) THEN a.end_date.val ELSE strftime(today)
         IN  IF truthy(a.start_date)
             THEN [raised |-> "none", start_date |-> a.start_date.val, end_date |-> e]
             ELSE LET end_date_obj == strptime(e)
                      back == IF end_date_obj.some
                              THEN minus_three_months(end_date_obj.val) ELSE None
                  IN  IF ~back.some
                      THEN [raised |-> "ValueError", start_date |-> <<>>, end_date |-> e]
                      ELSE [raised |-> "none", start_date |-> strftime(back.val),
                            end_date |-> e]

ValidateDates ==
    /\ pc = "dates"
    /\ LET r == resolve_dates(args, now)
       IN  IF r.raised # "none"
           THEN pc' = "exit" /\ error' = r.raised /\ UNCHANGED <<start_date, end_date, i>>
           ELSE /\ start_date' = r.start_date
                /\ end_date' = r.end_date
                /\ i' = 1
                /\ pc' = "loop"
                /\ error' = error
    /\ UNCHANGED <<args, now, tickers, positions, heap, selected_analysts,
                   workflow, app, agent, builds, invocations, attempted,
                   reported, data, messages, analyst_signals, active,
                   step_done, run_count, result>>

\* -------------------------------------------------------- the ticker loop
\* A slip of line 222: portfolio = base_portfolio, the same dict object.
base_portfolio_alias(h) == [ref |-> "base_portfolio", heap |-> h]

\* Line 222: portfolio = base_portfolio.copy(), a new dict object with the
\* entries of base_portfolio: [ref, heap].
base_portfolio_copy(h) ==
    [ref |-> "portfolio", heap |-> [h EXCEPT !["portfolio"] = h["base_portfolio"]]]

\* A slip of line 51: the compiled app is used whatever the selection.
never_customized(selected) == FALSE

\* Line 51: run_hedge_fund builds a workflow of its own when the analysts
\* are customized.
customized(selected) == selected # None

\* Lines 50-55: the graph run_hedge_fund invokes: [raised, agent, built,
\* workflow]. The global app is undefined unless the program has set it.
select_agent(selected, global_app, last_workflow) ==
    IF customized(selected)
    THEN LET wf == create_workflow(selected)
         IN  IF wf.raised # "none"
             THEN [raised |-> wf.raised, agent |-> NoGraph, built |-> FALSE, workflow |-> wf]
             ELSE [raised |-> "none", agent |-> compile(wf), built |-> TRUE, workflow |-> wf]
    ELSE IF global_app.some
         THEN [raised |-> "none", agent |-> global_app.val, built |-> FALSE,
               workflow |-> last_workflow]
         ELSE [raised |-> "NameError", agent |-> NoGraph, built |-> FALSE,
               workflow |-> last_workflow]

\* A slip of lines 237-238: the exception leaves the loop and the program.
reraise_Exception(k) == [pc |-> "exit", i |-> k, error |-> "Exception"]

\* Lines 237-238: the handler of the loop's try prints the error; the loop
\* goes on with the ticker after the k-th.
except_Exception(k) == [pc |-> "loop", i |-> k + 1, error |-> "none"]

\* The state of one graph run is dropped once its ticker is dealt with.
RunLeft ==
    /\ data' = NoData
    /\ messages' = <<>>
    /\ analyst_signals' = EmptyDict
    /\ active' = {}
    /\ step_done' = {}
    /\ run_count' = EmptyDict
    /\ agent' = NoGraph

\* An exception reaches the try of the k-th ticker.
Caught(k) ==
    /\ pc' = except_Exception(k).pc
    /\ i' = except_Exception(k).i
    /\ error' = except_Exception(k).error
    /\ reported' = IF except_Exception(k).pc = "loop"
                   THEN Append(reported, [ticker |-> tickers[k], outcome |-> "error"])
                   ELSE reported

\* Lines 217-235 and 50-75: the loop takes the next ticker, makes its
\* portfolio, and run_hedge_fund chooses its graph and starts the
\* invocation with the initial state.
LoopTicker ==
    /\ pc = "loop"
    /\ i <= Len(tickers)
    /\ LET ticker == tickers[i]
           c == base_portfolio_copy(heap)
           s == select_agent(selected_analysts, app, workflow)
       IN  /\ attempted' = Append(attempted, ticker)
           /\ heap' = [c.heap EXCEPT ![c.ref].stock = Some(dict_get(positions[ticker], 0))]
           /\ workflow' = s.workflow
           /\ builds' = IF s.built THEN builds + 1 ELSE builds
           /\ IF s.raised # "none"
              THEN /\ Caught(i)
                   /\ UNCHANGED <<agent, invocations, data, messages,
                                  analyst_signals, active, step_done, run_count>>
              ELSE /\ agent' = s.agent
                   /\ invocations' = invocations + 1
                   /\ messages' = <<HumanContent>>
                   /\ data' = [ticker |-> ticker, portfolio |-> c.ref,
                               start_date |-> start_date, end_date |-> end_date]
                   /\ analyst_signals' = EmptyDict
                   /\ active' = {s.agent.entry_point}
                   /\ step_done' = {}
                   /\ run_count' = [n \in s.agent.nodes |-> 0]
                   /\ pc' = "invoke"
                   /\ UNCHANGED <<i, reported, error>>
    /\ UNCHANGED <<args, now, tickers, positions, selected_analysts, app,
                   start_date, end_date, result>>

\* Line 217: the list is exhausted.
LoopDone ==
    /\ pc = "loop"
    /\ i > Len(tickers)
    /\ pc' = "done"
    /\ UNCHANGED <<args, now, tickers, positions, heap, selected_analysts,
                   workflow, app, agent, builds, invocations, start_date,
                   end_date, i, attempted, reported, data, messages,
                   analyst_signals, active, step_done, run_count, result,
                   error>>

\* ------------------------------------------------------- the graph engine
\* agent.invoke (line 57) runs the graph in steps: the nodes of a step run
\* in any order; once all have run, the next step holds the targets of
\* their edges.
AnalystNodeNames == {analyst_nodes[k] : k \in KnownKeys}

Targets(g, from) == {e[2] : e \in {x \in g.edges : x[1] \in from}} \ {END}

\* The step bookkeeping after node n has run.
Advance(n) ==
    /\ run_count' = [run_count EXCEPT ![n] = @ + 1]
    /\ IF step_done \cup {n} = active
       THEN active' = Targets(agent, active) /\ step_done' = {}
       ELSE active' = active /\ step_done' = step_done \cup {n}

\* One node runs. An analyst adds its signal under its own name and a
\* message; risk management adds a message; portfolio management adds the
\* final message and may trade on the portfolio it was given.
RunNode(n) ==
    /\ pc = "invoke"
    /\ n \in active \ step_done
    /\ Advance(n)
    /\ analyst_signals' = IF n \in AnalystNodeNames
                          THEN dict_set(analyst_signals, n, "signal")
                          ELSE analyst_signals
    /\ IF n = PORTFOLIO
       THEN /\ \E content \in Contents : messages' = Append(messages, content)
            /\ \E trade \in BOOLEAN :
                  heap' = IF trade
                          THEN [heap EXCEPT ![data.portfolio] =
                                   [cash |-> Some(0), stock |-> Some(@.stock.val + 1)]]
                          ELSE heap
       ELSE /\ messages' = IF n = START_NODE THEN messages
                           ELSE Append(messages, NodeContent)
            /\ heap' = heap
    /\ UNCHANGED <<pc, args, now, tickers, positions, selected_analysts,
                   workflow, app, agent, builds, invocations, start_date,
                   end_date, i, attempted, reported, data, result, error>>

\* A node raises: the invocation fails, run_hedge_fund is left by the
\* exception, and the try of the loop catches it.
NodeRaise(n) ==
    /\ pc = "invoke"
    /\ n \in active \ step_done
    /\ Caught(i)
    /\ RunLeft
    /\ UNCHANGED <<args, now, tickers, positions, heap, selected_analysts,
                   workflow, app, builds, invocations, start_date, end_date,
                   attempted, result>>

\* Lines 76-79: the graph has run to its end; run_hedge_fund returns the
\* parsed content of the last message and the signals of the final state.
RunReturn ==
    /\ pc = "invoke"
    /\ active = {}
    /\ LET parsed == parse_hedge_fund_response(messages[Len(messages)])
       IN  IF parsed.raised
           THEN Caught(i) /\ RunLeft /\ UNCHANGED result
           ELSE /\ result' = [decision |-> parsed.val,
                              analyst_signals |-> analyst_signals]
                /\ pc' = "report"
                /\ UNCHANGED <<i, reported, error, agent, data, messages,
                               analyst_signals, active, step_done, run_count>>
    /\ UNCHANGED <<args, now, tickers, positions, heap, selected_analysts,
                   workflow, app, builds, invocations, start_date, end_date,
                   attempted>>

\* Line 236: print_trading_output(result) prints the result, or raises and
\* the try of the loop catches it; the loop moves to the next ticker.
Report ==
    /\ pc = "report"
    /\ \E printed \in BOOLEAN :
          IF printed
          THEN /\ reported' = Append(reported, [ticker |-> tickers[i], outcome |-> "printed"])
               /\ i' = i + 1
               /\ pc' = "loop"
               /\ error' = error
          ELSE Caught(i)
    /\ RunLeft
    /\ UNCHANGED <<args, now, tickers, positions, heap, selected_analysts,
                   workflow, app, builds, invocations, start_date, end_date,
                   attempted, result>>

AllNodes == AnalystNodeNames \cup {START_NODE, RISK, PORTFOLIO}

Next ==
    \/ ParseArgs
    \/ ResolveConfig
    \/ Prompt
    \/ BuildApp
    \/ ValidateDates
    \/ LoopTicker
    \/ LoopDone
    \/ \E n \in AllNodes : RunNode(n)
    \/ \E n \in AllNodes : NodeRaise(n)
    \/ RunReturn
    \/ Report

Spec == Init /\ [][Next]_vars

\* ------------------------------------------------- calls of the functions
\* create_workflow and run_hedge_fund called by other code, with any
\* selection: None, or a list over the four keys and a key that is none of
\* them, with repeats. The global app is undefined, or set by the program.
SelectionInputs ==
    {None} \cup {Some(q) : q \in SeqsOf(KnownKeys \cup {"momentum_analyst"}, 0, MaxSel)}

InitCall ==
    /\ pc = "call"
    /\ selected_analysts \in SelectionInputs
    /\ app \in {None, Some(compile(create_workflow(None)))}
    /\ args = [tickers |-> None, config |-> None, start_date |-> None, end_date |-> None]
    /\ now \in Clock
    /\ Blank

\* create_workflow(selected_analysts), lines 87-123.
CallCreateWorkflow ==
    /\ pc = "call"
    /\ workflow' = create_workflow(selected_analysts)
    /\ error' = workflow'.raised
    /\ pc' = IF workflow'.raised = "none" THEN "created" ELSE "create_raised"
    /\ UNCHANGED <<args, now, tickers, positions, heap, selected_analysts, app,
                   agent, builds, invocations, start_date, end_date, i,
                   attempted, reported, data, messages, analyst_signals,
                   active, step_done, run_count, result>>

\* run_hedge_fund(..., selected_analysts), lines 50-55: the graph it is
\* about to invoke.
CallRunHedgeFund ==
    /\ pc = "call"
    /\ LET s == select_agent(selected_analysts, app, workflow)
       IN  /\ workflow' = s.workflow
           /\ agent' = s.agent
           /\ builds' = IF s.built THEN builds + 1 ELSE builds
           /\ error' = s.raised
           /\ pc' = IF s.raised = "none" THEN "agent_ready" ELSE "run_raised"
    /\ UNCHANGED <<args, now, tickers, positions, heap, selected_analysts, app,
                   invocations, start_date, end_date, i, attempted, reported,
                   data, messages, analyst_signals, active, step_done,
                   run_count, result>>

NextCall ==
    \/ CallCreateWorkflow
    \/ CallRunHedgeFund

SpecCall == InitCall /\ [][NextCall]_vars

\* ================================================================== claims
Elems(q) == {q[k] : k \in 1..Len(q)}

\* The graph the spec describes for the analyst keys K: start, one node per
\* key, risk and portfolio management, wired start -> analyst -> risk ->
\* portfolio -> end.
ExpectedNodes(K) == {START_NODE, RISK, PORTFOLIO} \cup {analyst_nodes[k] : k \in K}
ExpectedEdges(K) ==
    {<<START_NODE, analyst_nodes[k]>> : k \in K}
        \cup {<<analyst_nodes[k], RISK>> : k \in K}
        \cup {<<RISK, PORTFOLIO>>, <<PORTFOLIO, END>>}

\* g has one analyst node per key of K, each with exactly one edge coming
\* in (from start) and one going out (to risk management).
AnalystWiring(g, K) ==
    /\ g.nodes \cap AnalystNodeNames = {analyst_nodes[k] : k \in K}
    /\ \A k \in K :
          /\ {e \in g.edges : e[2] = analyst_nodes[k]} = {<<START_NODE, analyst_nodes[k]>>}
          /\ {e \in g.edges : e[1] = analyst_nodes[k]} = {<<analyst_nodes[k], RISK>>}

\* In g every path from start to the end goes through risk management and
\* then portfolio management: only portfolio management reaches the end,
\* only risk management leads to it, and start does not lead to it directly.
RiskBeforePortfolio(g) ==
    /\ g.entry_point = START_NODE
    /\ {e[1] : e \in {x \in g.edges : x[2] = END}} = {PORTFOLIO}
    /\ {e[1] : e \in {x \in g.edges : x[2] = PORTFOLIO}} = {RISK}
    /\ {e[2] : e \in {x \in g.edges : x[1] = PORTFOLIO}} = {END}
    /\ {e[2] : e \in {x \in g.edges : x[1] = RISK}} = {PORTFOLIO}
    /\ <<START_NODE, RISK>> \notin g.edges

CreateWorkflowCalled == pc \in {"created", "create_raised"}

\* C1: for every non-empty selection S over the four known keys (a list,
\* repeats allowed), create_workflow returns a graph with exactly one analyst
\* node per unique key of S, each with one edge from start and one into
\* risk management, and risk management before portfolio management on
\* every path.
C1_GraphForSelection ==
    (/\ CreateWorkflowCalled
     /\ selected_analysts.some
     /\ selected_analysts.val # <<>>
     /\ Elems(selected_analysts.val) \subseteq KnownKeys)
        => /\ workflow.raised = "none"
           /\ AnalystWiring(workflow, Elems(selected_analysts.val))
           /\ RiskBeforePortfolio(workflow)

\* C4: a selection with a key outside the registry fails with
\* UnknownAnalystError, and when it fails no node or edge has been
\* registered in the workflow.
C4_UnknownKeyBuildsNothing ==
    (/\ CreateWorkflowCalled
     /\ selected_analysts.some
     /\ ~(Elems(selected_analysts.val) \subseteq KnownKeys))
        => /\ error = "UnknownAnalystError"
           /\ workflow.nodes = {}
           /\ workflow.edges = {}

\* C5: with the selection None or the empty list, the graph has all four
\* analysts wired start -> analyst -> risk management, for create_workflow
\* called directly and for the graph run_hedge_fund uses.
C5_EmptyDefaultsToAll ==
    (selected_analysts = None \/ selected_analysts = Some(<<>>))
        => /\ pc = "created" =>
                 /\ workflow.nodes = ExpectedNodes(KnownKeys)
                 /\ workflow.edges = ExpectedEdges(KnownKeys)
           /\ pc = "agent_ready" =>
                 /\ agent.nodes = ExpectedNodes(KnownKeys)
                 /\ agent.edges = ExpectedEdges(KnownKeys)

\* The selection without its repeats: the first occurrence of each key.
RECURSIVE Dedup(_)
Dedup(q) ==
    IF q = <<>> THEN <<>>
    ELSE LET front == Dedup(SubSeq(q, 1, Len(q) - 1))
         IN  IF q[Len(q)] \in Elems(front) THEN front ELSE Append(front, q[Len(q)])

\* C6: a selection that repeats a known key is deduplicated: the build
\* succeeds and gives the same graph as the selection without the repeat,
\* one node for the key and one edge from it to risk management.
C6_RepeatsDeduplicated ==
    (/\ CreateWorkflowCalled
     /\ selected_analysts.some
     /\ Elems(selected_analysts.val) \subseteq KnownKeys
     /\ ~NoRepeat(selected_analysts.val))
        => /\ workflow.raised = "none"
           /\ workflow = create_workflow(Some(Dedup(selected_analysts.val)))
           /\ AnalystWiring(workflow, Elems(selected_analysts.val))

LoopReached == pc \in {"loop", "invoke", "report", "done"}

\* C2: every ticker of the list is attempted exactly once, in list order;
\* an exception in a ticker's graph run or in reporting its result is
\* caught at that ticker and never ends the loop: the tickers attempted
\* and reported are always the list up to the current one, the whole list
\* when the loop is done, and the program never exits once the loop began.
C2_EveryTickerAttempted ==
    /\ LoopReached =>
          /\ attempted = SubSeq(tickers, 1, Len(attempted))
          /\ [k \in 1..Len(reported) |-> reported[k].ticker]
                = SubSeq(tickers, 1, Len(reported))
    /\ pc = "loop" => Len(attempted) = i - 1 /\ Len(reported) = i - 1
    /\ pc \in {"invoke", "report"} => Len(attempted) = i /\ Len(reported) = i - 1
    /\ pc = "done" => Len(attempted) = Len(tickers) /\ Len(reported) = Len(tickers)
    /\ pc = "exit" => attempted = <<>>

\* C2 witness: the first ticker failed, the second was still attempted and
\* its result printed.
C2_Witness ==
    /\ pc = "done"
    /\ Len(tickers) >= 2
    /\ reported[1].outcome = "error"
    /\ reported[2].outcome = "printed"

\* The final message of the run that has ended cannot be parsed.
Unparseable == messages # <<>> /\ json_loads(messages[Len(messages)]).raised

StrictYMD(t) ==
    /\ Len(t) = 10
    /\ \A k \in {1, 2, 3, 4, 6, 7, 9, 10} : IsDigit(t[k])
    /\ t[5] = "-"
    /\ t[8] = "-"

BothOrNeither == args.tickers.some = args.config.some

ConfigurationError ==
    \/ BothOrNeither
    \/ args.start_date.some /\ ~StrictYMD(args.start_date.val)
    \/ args.end_date.some /\ ~StrictYMD(args.end_date.val)

\* C7: a configuration error (both or neither of --tickers/--config, or a
\* given start or end date that is not strict YYYY-MM-DD) ends the run
\* before any ticker: no graph is ever invoked in such a run, and with both
\* or neither no graph is built.
C7_ConfigErrorStopsRun ==
    /\ ConfigurationError => invocations = 0 /\ attempted = <<>>
    /\ BothOrNeither => builds = 0

\* The cash and the stock the configuration gives a ticker.
ConfiguredCash ==
    IF args.config.some THEN dict_get(args.config.val.cash, DefaultCash) ELSE DefaultCash

ConfiguredStock(t) ==
    IF args.config.some
    THEN LET ps == args.config.val.positions
         IN  dict_get((CHOOSE q \in Elems(ps) : q.name = t).stock, 0)
    ELSE 0

InvocationStarts == pc = "invoke" /\ \A n \in DOMAIN run_count : run_count[n] = 0

\* C8: every invocation starts from fresh state: analyst_signals is empty,
\* the only message is the instruction, and the portfolio passed has the
\* configured cash (100000 with --tickers) and the ticker's configured
\* stock (0 when missing), whatever earlier runs did.
C8_FreshStatePerTicker ==
    InvocationStarts =>
        /\ analyst_signals = EmptyDict
        /\ messages = <<HumanContent>>
        /\ data.ticker = tickers[i]
        /\ heap[data.portfolio].cash = Some(ConfiguredCash)
        /\ heap[data.portfolio].stock = Some(ConfiguredStock(data.ticker))
        /\ args.tickers.some =>
              /\ heap[data.portfolio].cash = Some(100000)
              /\ heap[data.portfolio].stock = Some(0)

\* C8 witness: the second ticker's invocation starts after a first run that
\* gathered signals.
C8_Witness ==
    /\ InvocationStarts
    /\ i = 2
    /\ reported[1].outcome = "printed"
    /\ DOMAIN result.analyst_signals # {}
    /\ analyst_signals = EmptyDict

\* C9 as stated: a run over n tickers with one selection builds the graph
\* once, whether the selection was chosen at the prompt or defaulted.
C9_BuiltOnce == pc = "done" => builds = 1

\* C9 amended: the program builds the graph once at startup; with the
\* defaulted selection that is the only build, with a selection chosen at
\* the prompt run_hedge_fund builds one more for every ticker attempted.
C9_BuildsPerTicker ==
    LoopReached =>
        builds = 1 + (IF selected_analysts = None THEN 0 ELSE Len(attempted))

\* C9 witness: a run over two tickers with a chosen selection is done.
C9_Witness ==
    /\ pc = "done"
    /\ selected_analysts # None
    /\ Len(tickers) = 2
    /\ builds = 3

SelectedNodes == {analyst_nodes[k] : k \in Elems(default_selection(selected_analysts))}

\* C10: during a graph run analyst_signals only grows; risk management
\* runs exactly once, and when it starts every selected analyst has run once
\* and analyst_signals holds exactly the entries of the selected analysts.
C10_SignalsCompleteAtRisk ==
    [][/\ (pc = "invoke" /\ pc' \in {"invoke", "report"}) =>
             \A k \in DOMAIN analyst_signals :
                 k \in DOMAIN analyst_signals' /\ analyst_signals'[k] = analyst_signals[k]
       /\ (pc = "invoke" /\ pc' = "invoke" /\ run_count # EmptyDict /\ run_count'[RISK] # run_count[RISK]) =>
             /\ run_count[RISK] = 0
             /\ \A n \in SelectedNodes : run_count[n] = 1
             /\ DOMAIN analyst_signals = SelectedNodes
       /\ (pc = "invoke" /\ pc' = "report") => run_count[RISK] = 1]_vars

\* C10 witness: risk management has run once, after two or more analysts.
C10_Witness ==
    /\ pc = "invoke"
    /\ run_count[RISK] = 1
    /\ Cardinality(SelectedNodes) >= 2
    /\ DOMAIN analyst_signals = SelectedNodes

====
